---- MODULE Spec2Model ----
(***************************************************************************)
(* pgsql-postal (src/postal.c): a PostgreSQL extension that marshals text  *)
(* to libpostal and back.  The model covers the module load/unload hooks   *)
(* (_PG_init, _PG_fini), the two SQL functions (postal_normalize,          *)
(* postal_parse) and the JSON string escaper (escape_json_string).         *)
(*                                                                         *)
(* Text is modelled as sequences of byte values 0..255.  A C string is a   *)
(* byte buffer whose contents end at its first NUL byte.                   *)
(***************************************************************************)
EXTENDS Integers, Sequences, FiniteSets, TLC

VARIABLES
    phase,          \* "unloaded" | "ready" | "failed" | "stopped"
    setupRet,       \* what the three libpostal_setup* calls return on this load
    setupCalls,     \* the libpostal_setup* calls _PG_init made, in order
    teardownCalls,  \* the libpostal_teardown* calls _PG_fini made, in order
    initError,      \* TRUE once _PG_init raised elog(ERROR)
    outstanding,    \* external results obtained from libpostal and not yet destroyed
    errored,        \* TRUE once a postal_normalize/postal_parse call raised an error
    last,           \* record of the last postal_normalize/postal_parse call
    str,            \* escape_json_string: the argument (a C string)
    est,            \* escape_json_string: the locals i, j, pstr (and write bookkeeping)
    epc,            \* escape_json_string: "off" | "loop" | "returned" | "decoded"
    dec             \* result of decoding the returned text as a JSON string

vars == <<phase, setupRet, setupCalls, teardownCalls, initError, outstanding,
          errored, last, str, est, epc, dec>>

lifecycleVars == <<phase, setupRet, setupCalls, teardownCalls, initError>>
callVars == <<outstanding, errored, last>>
escapeVars == <<str, est, epc, dec>>

-----------------------------------------------------------------------------
(* Byte values named by the source. *)

NUL == 0
Backspace == 8
Tab == 9
Newline == 10
FormFeed == 12
CarriageReturn == 13
DQuote == 34
Comma == 44
Colon == 58
Backslash == 92
LowerB == 98
LowerF == 102
LowerN == 110
LowerR == 114
LowerT == 116
LBrace == 123
RBrace == 125

(* Bounds of the model. *)
MaxLen == 3
MaxExpansions == 2
MaxComponents == 2
MaxOutstanding == 2

(* The byte values the escaper is exercised on: the seven bytes the switch *)
(* names, a control byte it does not name (0x01), plain ASCII ('a', '{')   *)
(* and a byte above 0x7F (0xC8).                                           *)
Bytes == {Backslash, DQuote, Newline, CarriageReturn, Tab, Backspace, FormFeed,
          1, 97, LBrace, 200}

RECURSIVE SeqsUpTo(_, _)
SeqsUpTo(S, n) ==
    IF n = 0 THEN {<<>>}
    ELSE LET shorter == SeqsUpTo(S, n - 1)
         IN  shorter \cup {Append(s, b) : s \in shorter, b \in S}

-----------------------------------------------------------------------------
(* C strings. *)

CString(content) == Append(content, NUL)

strlen(buf) ==
    CHOOSE n \in 0..(Len(buf) - 1) :
        /\ buf[n + 1] = NUL
        /\ \A k \in 1..n : buf[k] # NUL

CContent(buf) == SubSeq(buf, 1, strlen(buf))

-----------------------------------------------------------------------------
(* escape_json_string.  est = [i, j, pstr, hi, brk]: i and j are the C     *)
(* locals, pstr the bytes written to the buffer so far (pstr[k+1] is C's   *)
(* pstr[k]), hi the highest buffer index written (-1: none), brk whether   *)
(* the loop was left through "if (j == pstr_len) break".                   *)

PstrLenTight(str_len) == str_len + 1

PstrLen(str_len) == 2 * (str_len + 1)

EscapeStart == [i |-> 0, j |-> 0, pstr |-> <<>>, hi |-> -1, brk |-> FALSE]

\* pstr[j++] = b
Put(st, b) ==
    [st EXCEPT !.pstr = Append(@, b), !.j = @ + 1,
               !.hi = IF st.j > @ THEN st.j ELSE @]

Put2(st, b1, b2) == Put(Put(st, b1), b2)

SwitchChNoFormFeed(st, ch) ==
    CASE ch = Backslash      -> Put2(st, Backslash, Backslash)
      [] ch = DQuote         -> Put2(st, Backslash, DQuote)
      [] ch = Newline        -> Put2(st, Backslash, LowerN)
      [] ch = CarriageReturn -> Put2(st, Backslash, LowerR)
      [] ch = Tab            -> Put2(st, Backslash, LowerT)
      [] ch = Backspace      -> Put2(st, Backslash, LowerB)
      [] OTHER               -> Put(st, ch)

\* the switch statement
SwitchCh(st, ch) ==
    CASE ch = Backslash      -> Put2(st, Backslash, Backslash)
      [] ch = DQuote         -> Put2(st, Backslash, DQuote)
      [] ch = Newline        -> Put2(st, Backslash, LowerN)
      [] ch = CarriageReturn -> Put2(st, Backslash, LowerR)
      [] ch = Tab            -> Put2(st, Backslash, LowerT)
      [] ch = Backspace      -> Put2(st, Backslash, LowerB)
      [] ch = FormFeed       -> Put2(st, Backslash, LowerF)
      [] OTHER               -> Put(st, ch)

\* the loop condition: i < str_len, and the loop has not been left by break
LoopCond(st, s) == ~st.brk /\ st.i < strlen(s)

\* one iteration of the loop body, then i++ unless the body broke out
EscapeIter(st, s) ==
    LET w == SwitchCh(st, s[st.i + 1])
    IN  IF w.j = PstrLen(strlen(s))
        THEN [w EXCEPT !.brk = TRUE]
        ELSE [w EXCEPT !.i = @ + 1]

\* pstr[j++] = '\0'
EscapeTerminate(st) == Put(st, NUL)

RECURSIVE EscapeLoop(_, _)
EscapeLoop(st, s) ==
    IF LoopCond(st, s) THEN EscapeLoop(EscapeIter(st, s), s) ELSE st

\* the whole function: the buffer it returns
escape_json_string(s) == EscapeTerminate(EscapeLoop(EscapeStart, s)).pstr

-----------------------------------------------------------------------------
(* The JSON string lexer of the host's document parser (the decoder of a   *)
(* double-quoted JSON string).  \uXXXX escapes are left out: no text built *)
(* here contains the byte 'u'.                                             *)

JsonEscapes == {DQuote, Backslash, 47, LowerB, LowerF, LowerN, LowerR, LowerT}

JsonUnescape(e) ==
    CASE e = LowerB -> Backspace
      [] e = LowerF -> FormFeed
      [] e = LowerN -> Newline
      [] e = LowerR -> CarriageReturn
      [] e = LowerT -> Tab
      [] OTHER      -> e

NoLex == [ok |-> FALSE, val |-> <<>>, next |-> 0]

\* s[p] is the byte after the opening quote; lexes up to the closing quote
RECURSIVE JsonLexString(_, _, _)
JsonLexString(s, p, acc) ==
    IF p > Len(s) THEN NoLex
    ELSE IF s[p] < 32 THEN NoLex
    ELSE IF s[p] = DQuote THEN [ok |-> TRUE, val |-> acc, next |-> p + 1]
    ELSE IF s[p] = Backslash
         THEN IF p + 1 <= Len(s) /\ s[p + 1] \in JsonEscapes
              THEN JsonLexString(s, p + 2, Append(acc, JsonUnescape(s[p + 1])))
              ELSE NoLex
    ELSE JsonLexString(s, p + 1, Append(acc, s[p]))

\* decoding of a complete JSON string text (quotes included)
JsonDecodeString(q) ==
    IF Len(q) >= 2 /\ q[1] = DQuote
    THEN LET r == JsonLexString(q, 2, <<>>)
         IN  IF r.ok /\ r.next = Len(q) + 1
             THEN [ok |-> TRUE, val |-> r.val]
             ELSE [ok |-> FALSE, val |-> <<>>]
    ELSE [ok |-> FALSE, val |-> <<>>]

-----------------------------------------------------------------------------
(* The host's document parser, jsonb_in, on the texts postal_parse builds: *)
(* an object whose members are "key":"value" strings, with optional white  *)
(* space between tokens.  A document is a set of <<key, value>> pairs with *)
(* one pair per key; a repeated key keeps its last value.  Values that are *)
(* not strings (numbers, literals, arrays, nested objects) are left out:   *)
(* postal_parse writes every value between double quotes.                  *)

JsonSpace == {32, Tab, Newline, CarriageReturn}

RECURSIVE SkipWs(_, _)
SkipWs(s, p) ==
    IF p <= Len(s) /\ s[p] \in JsonSpace THEN SkipWs(s, p + 1) ELSE p

Is(s, p, b) == p <= Len(s) /\ s[p] = b

DocPut(doc, k, v) == {e \in doc : e[1] # k} \cup {<<k, v>>}

NoDoc == [ok |-> FALSE, doc |-> {}, next |-> 0]

\* p is at the first byte of a member's key
RECURSIVE JsonMembers(_, _, _)
JsonMembers(s, p, doc) ==
    IF ~Is(s, p, DQuote) THEN NoDoc
    ELSE LET k  == JsonLexString(s, p + 1, <<>>)
             p2 == SkipWs(s, k.next)
             p3 == SkipWs(s, p2 + 1)
             v  == JsonLexString(s, p3 + 1, <<>>)
             p4 == SkipWs(s, v.next)
         IN  IF ~k.ok \/ ~Is(s, p2, Colon) \/ ~Is(s, p3, DQuote) THEN NoDoc
             ELSE IF ~v.ok THEN NoDoc
             ELSE IF Is(s, p4, Comma)
                  THEN JsonMembers(s, SkipWs(s, p4 + 1), DocPut(doc, k.val, v.val))
             ELSE IF Is(s, p4, RBrace)
                  THEN [ok |-> TRUE, doc |-> DocPut(doc, k.val, v.val), next |-> p4 + 1]
             ELSE NoDoc

jsonb_in(s) ==
    LET p1 == SkipWs(s, 1)
        p2 == SkipWs(s, p1 + 1)
        r  == IF Is(s, p2, RBrace)
              THEN [ok |-> TRUE, doc |-> {}, next |-> p2 + 1]
              ELSE JsonMembers(s, p2, {})
    IN  IF Is(s, p1, LBrace) /\ r.ok /\ SkipWs(s, r.next) = Len(s) + 1
        THEN [ok |-> TRUE, doc |-> r.doc]
        ELSE [ok |-> FALSE, doc |-> {}]

-----------------------------------------------------------------------------
(* Module load and unload. *)

SetupOrder == <<"setup", "setup_parser", "setup_language_classifier">>

InitCallsEager(rets) == SetupOrder

\* the calls the || chain of _PG_init makes when the k-th call returns rets[k]
InitCalls(rets) ==
    IF ~rets[1] THEN SubSeq(SetupOrder, 1, 1)
    ELSE IF ~rets[2] THEN SubSeq(SetupOrder, 1, 2)
    ELSE SetupOrder

\* the condition of the if: some call that was made returned false
InitFails(rets) == \E k \in 1..Len(InitCalls(rets)) : ~rets[k]

FiniCalls == <<"teardown", "teardown_parser", "teardown_language_classifier">>

-----------------------------------------------------------------------------
(* Host errors.  A fault names the host call that raises an error (by      *)
(* elog(ERROR), which leaves the function at once) during one call of      *)
(* postal_normalize or postal_parse; "at" is the loop index for the calls  *)
(* made inside a loop.                                                     *)

NoFault == [site |-> "none", at |-> 0]

NormalizeFaults(n) ==
    {NoFault}
      \cup {[site |-> s, at |-> 0] : s \in {"text_to_cstring", "palloc", "construct_array"}}
      \cup {[site |-> "cstring_to_text", at |-> i] : i \in 1..n}

ParseFaults(n) ==
    {NoFault}
      \cup {[site |-> s, at |-> 0] : s \in {"text_to_cstring", "initStringInfo", "jsonb_in"}}
      \cup {[site |-> s, at |-> i] : s \in {"escape_json_string", "appendStringInfo"},
                                     i \in 1..n}

-----------------------------------------------------------------------------
(* postal_normalize.  ext is what libpostal_expand_address returns: the    *)
(* sequence of expansions (C strings); its length is arr_nelems.           *)

\* a text datum holding the strlen(buf) bytes of the C string
cstring_to_text(buf) == SubSeq(buf, 1, strlen(buf))

NormalizeElemsReversed(ext) ==
    [i \in 1..Len(ext) |-> cstring_to_text(ext[Len(ext) + 1 - i])]

\* the for loop: arr_elems[i] = cstring_to_text(expansions[i])
NormalizeElems(ext) == [i \in 1..Len(ext) |-> cstring_to_text(ext[i])]

\* a copy of the first nelems elements
construct_array(elems, nelems) == SubSeq(elems, 1, nelems)

NormalizeRun(ext, fault) ==
    LET before == fault.site = "text_to_cstring"  \* raised before the external call
        raised == fault.site # "none"
    IN  [op       |-> "normalize",
         ext      |-> ext,
         fault    |-> fault,
         acquired |-> IF before THEN 0 ELSE 1,
         \* libpostal_expansion_array_destroy is reached when nothing raised
         released |-> IF raised THEN 0 ELSE 1,
         error    |-> raised,
         handed   |-> FALSE,
         json     |-> <<>>,
         result   |-> IF raised THEN <<>>
                      ELSE construct_array(NormalizeElems(ext), Len(ext))]

-----------------------------------------------------------------------------
(* postal_parse.  parsed is what libpostal_parse_address returns: a        *)
(* sequence of [label, component] pairs of C strings.                      *)

\* appendStringInfo(&strbuf, "\"%s\":\"%s\"", label, component)
EntryText(label, component) ==
    <<DQuote>> \o CContent(label) \o <<DQuote, Colon, DQuote>>
               \o CContent(component) \o <<DQuote>>

RECURSIVE AppendEntries(_, _, _)
AppendEntries(buf, parsed, i) ==
    IF i > Len(parsed) THEN buf
    ELSE AppendEntries(
             (IF i > 1 THEN Append(buf, Comma) ELSE buf)
                 \o EntryText(parsed[i].label, escape_json_string(parsed[i].component)),
             parsed, i + 1)

RECURSIVE AppendEntriesTrailing(_, _, _)
AppendEntriesTrailing(buf, parsed, i) ==
    IF i > Len(parsed) THEN buf
    ELSE AppendEntriesTrailing(
             Append(buf \o EntryText(parsed[i].label,
                                     escape_json_string(parsed[i].component)), Comma),
             parsed, i + 1)

BuildJsonTrailing(parsed) ==
    LET b == AppendEntriesTrailing(<<LBrace>>, parsed, 1)
    IN  Append(SubSeq(b, 1, Len(b) - 1), RBrace)

\* the text in strbuf when the loop and the closing brace are done
BuildJson(parsed) == Append(AppendEntries(<<LBrace>>, parsed, 1), RBrace)

ParseDestroyCallsNever(handed) == 0

\* libpostal_address_parser_response_destroy is reached when the text is built
ParseDestroyCalls(handed) == IF handed THEN 1 ELSE 0

ParseRun(parsed, fault) ==
    LET before == fault.site = "text_to_cstring"  \* raised before the external call
        built  == fault.site \in {"none", "jsonb_in"}
        json   == IF built THEN BuildJson(parsed) ELSE <<>>
        doc    == jsonb_in(json)
        ok     == built /\ fault.site = "none" /\ doc.ok
    IN  [op       |-> "parse",
         ext      |-> parsed,
         fault    |-> fault,
         acquired |-> IF before THEN 0 ELSE 1,
         released |-> ParseDestroyCalls(built),
         error    |-> ~ok,
         handed   |-> built,
         json     |-> json,
         result   |-> IF ok THEN doc.doc ELSE {}]

-----------------------------------------------------------------------------
(* State that is idle in one of the specifications. *)

NoCall == [op |-> "none"]
NoDec == [ok |-> FALSE, val |-> <<>>]

LifecycleIdle ==
    /\ phase = "unloaded"
    /\ setupRet = <<>>
    /\ setupCalls = <<>>
    /\ teardownCalls = <<>>
    /\ initError = FALSE
    /\ outstanding = 0
    /\ errored = FALSE
    /\ last = NoCall

EscapeIdle ==
    /\ str = <<NUL>>
    /\ est = EscapeStart
    /\ epc = "off"
    /\ dec = NoDec

-----------------------------------------------------------------------------
(* escape_json_string run step by step on every text of at most MaxLen     *)
(* bytes, followed by the decoding of its result between double quotes.    *)

InitEscape ==
    /\ LifecycleIdle
    /\ str \in {CString(c) : c \in SeqsUpTo(Bytes, MaxLen)}
    /\ est = EscapeStart
    /\ epc = "loop"
    /\ dec = NoDec

EscapeIterStep ==
    /\ epc = "loop"
    /\ LoopCond(est, str)
    /\ est' = EscapeIter(est, str)
    /\ UNCHANGED <<str, epc, dec>>
    /\ UNCHANGED <<lifecycleVars, callVars>>

EscapeReturn ==
    /\ epc = "loop"
    /\ ~LoopCond(est, str)
    /\ est' = EscapeTerminate(est)
    /\ epc' = "returned"
    /\ UNCHANGED <<str, dec>>
    /\ UNCHANGED <<lifecycleVars, callVars>>

JsonDecode ==
    /\ epc = "returned"
    /\ dec' = JsonDecodeString(<<DQuote>> \o CContent(est.pstr) \o <<DQuote>>)
    /\ epc' = "decoded"
    /\ UNCHANGED <<str, est>>
    /\ UNCHANGED <<lifecycleVars, callVars>>

NextEscape == EscapeIterStep \/ EscapeReturn \/ JsonDecode

SpecEscape == InitEscape /\ [][NextEscape]_vars

-----------------------------------------------------------------------------
(* What the external engine returns. *)

Road == <<114, 111, 97, 100>>
City == <<99, 105, 116, 121>>

\* expansions, as texts
ExpTexts == {<<>>, <<97>>, <<97, 98>>, <<200, 1>>}

\* address components and labels, as texts
CompTexts == {<<>>, <<97>>, <<DQuote, RBrace>>, <<Backslash>>, <<Newline>>, <<1>>,
              <<200, 97>>}
LabelTexts == {Road, City}

Pairs(labels, comps) ==
    {[label |-> CString(l), component |-> CString(c)] : l \in labels, c \in comps}

Expansions == SeqsUpTo({CString(t) : t \in ExpTexts}, MaxExpansions)
Responses == SeqsUpTo(Pairs(LabelTexts, CompTexts), MaxComponents)

\* the smaller sets used where many calls follow one another
FewExpansions == SeqsUpTo({CString(<<97>>)}, MaxExpansions)
FewResponses == SeqsUpTo(Pairs({Road}, {<<97>>, <<1>>}), MaxComponents)

-----------------------------------------------------------------------------
(* The operations. *)

PG_init ==
    /\ phase = "unloaded"
    /\ epc = "off"
    /\ \E rets \in [1..3 -> BOOLEAN] :
          /\ setupRet' = rets
          /\ setupCalls' = InitCalls(rets)
          /\ initError' = InitFails(rets)
          /\ phase' = IF InitFails(rets) THEN "failed" ELSE "ready"
    /\ UNCHANGED <<teardownCalls, callVars, escapeVars>>

PG_fini ==
    /\ phase = "ready"
    /\ teardownCalls' = teardownCalls \o FiniCalls
    /\ phase' = "stopped"
    /\ UNCHANGED <<setupRet, setupCalls, initError, callVars, escapeVars>>

\* the effect of one finished call on the state
Finish(r) ==
    /\ last' = r
    /\ outstanding' = outstanding + r.acquired - r.released
    /\ errored' = (errored \/ r.error)
    /\ UNCHANGED <<lifecycleVars, escapeVars>>

NormalizeCall(results) ==
    /\ phase = "ready"
    /\ outstanding < MaxOutstanding
    /\ \E ext \in results :
          \E fault \in NormalizeFaults(Len(ext)) : Finish(NormalizeRun(ext, fault))

ParseCall(results) ==
    /\ phase = "ready"
    /\ outstanding < MaxOutstanding
    /\ \E parsed \in results :
          \E fault \in ParseFaults(Len(parsed)) : Finish(ParseRun(parsed, fault))

-----------------------------------------------------------------------------
(* Load, any number of calls, unload. *)

Init == LifecycleIdle /\ EscapeIdle

postal_normalize == NormalizeCall(FewExpansions)

postal_parse == ParseCall(FewResponses)

Next == PG_init \/ PG_fini \/ postal_normalize \/ postal_parse

Spec == Init /\ [][Next]_vars

-----------------------------------------------------------------------------
(* One call of postal_normalize or postal_parse on a loaded module, on     *)
(* every result of the external engine.                                    *)

InitMarshal ==
    /\ phase = "ready"
    /\ setupRet = [k \in 1..3 |-> TRUE]
    /\ setupCalls = InitCalls(setupRet)
    /\ teardownCalls = <<>>
    /\ initError = FALSE
    /\ outstanding = 0
    /\ errored = FALSE
    /\ last = NoCall
    /\ EscapeIdle

ParseOnce == last = NoCall /\ ParseCall(Responses)

NormalizeOnce == last = NoCall /\ NormalizeCall(Expansions)

NextMarshal == ParseOnce \/ NormalizeOnce

SpecMarshal == InitMarshal /\ [][NextMarshal]_vars

-----------------------------------------------------------------------------
(* Properties. *)

Returned == epc \in {"returned", "decoded"}

\* the text the escaper was given
InputText == CContent(str)

\* C1: every call to the external expand/parse capability is matched by
\* exactly one call to its release function on every exit path of the
\* operation, the paths where a host call raises an error included.
C1_ReleaseOnEveryPath ==
    last.op \in {"normalize", "parse"} => last.released = last.acquired

\* C2: for every text T, decoding escape_json_string(T) placed between double
\* quotes as a JSON string succeeds and yields exactly T.
C2_RoundTrip ==
    epc = "decoded" => dec.ok /\ dec.val = InputText

\* C3: the text postal_parse hands to the host document parser is valid JSON
\* object text for every response of the external parser, so the host parser
\* never rejects it.
C3_AlwaysValidJson ==
    (last.op = "parse" /\ last.handed /\ last.fault = NoFault) =>
        jsonb_in(last.json).ok /\ ~last.error

\* The unit the escaping table gives for one byte.
TableUnit(b) ==
    CASE b = Backslash      -> <<Backslash, Backslash>>
      [] b = DQuote         -> <<Backslash, DQuote>>
      [] b = Newline        -> <<Backslash, LowerN>>
      [] b = CarriageReturn -> <<Backslash, LowerR>>
      [] b = Tab            -> <<Backslash, LowerT>>
      [] b = Backspace      -> <<Backslash, LowerB>>
      [] b = FormFeed       -> <<Backslash, LowerF>>
      [] OTHER              -> <<b>>

RECURSIVE TableUnits(_)
TableUnits(t) ==
    IF t = <<>> THEN <<>>
    ELSE TableUnits(SubSeq(t, 1, Len(t) - 1)) \o TableUnit(t[Len(t)])

\* C4: the output of escape_json_string is the concatenation, in input order,
\* of one unit per input byte: backslash and a letter for each of the seven
\* special bytes, the byte itself for every other byte; empty gives empty.
C4_ByteTable ==
    Returned => est.pstr = CString(TableUnits(InputText))

C4_Witness ==
    /\ epc = "returned"
    /\ \E k \in 1..Len(InputText) : InputText[k] = FormFeed
    /\ \E k \in 1..Len(InputText) : InputText[k] = 200
    /\ \E k \in 1..Len(InputText) : InputText[k] = Backslash

\* C5: the array postal_normalize returns has as many elements as the count
\* the external expansion call reported, and its i-th element is the i-th
\* string the engine returned: same order, nothing dropped, merged or changed.
C5_OrderPreserved ==
    (last.op = "normalize" /\ ~last.error) =>
        /\ Len(last.result) = Len(last.ext)
        /\ \A i \in 1..Len(last.ext) : last.result[i] = CContent(last.ext[i])

C5_Witness ==
    /\ last.op = "normalize"
    /\ ~last.error
    /\ Len(last.ext) >= 2
    /\ \E i, k \in 1..Len(last.ext) : i < k /\ last.ext[i] # last.ext[k]
    /\ last.result = [i \in 1..Len(last.ext) |-> CContent(last.ext[i])]

\* C6: empty results are not errors: with a count of zero postal_normalize
\* returns an empty array and releases the external list; with zero
\* components postal_parse hands the text {} to the host parser, returns the
\* empty document and releases the external response.
C6_EmptyResults ==
    (last.op \in {"normalize", "parse"} /\ Len(last.ext) = 0
                                        /\ last.fault = NoFault) =>
        /\ ~last.error
        /\ last.acquired = 1
        /\ last.released = 1
        /\ outstanding = 0
        /\ last.op = "normalize" => last.result = <<>>
        /\ last.op = "parse" => /\ last.handed
                                /\ last.json = <<LBrace, RBrace>>
                                /\ last.result = {}

C6_Witness ==
    /\ last.op = "parse"
    /\ Len(last.ext) = 0
    /\ last.fault = NoFault
    /\ last.json = <<LBrace, RBrace>>
    /\ ~last.error

\* the index of the first setup call that returns failure (4: none does)
FirstFailure ==
    IF \E k \in 1..3 : ~setupRet[k]
    THEN CHOOSE k \in 1..3 : ~setupRet[k] /\ \A m \in 1..(k - 1) : setupRet[m]
    ELSE 4

\* C7: _PG_init makes the setup calls in the order core, parser, language
\* classifier; the first failure raises the error at once (no later setup
\* call, no teardown call), and startup succeeds only when all three did.
C7_InitOrder ==
    phase \in {"ready", "failed"} =>
        /\ (phase = "failed") = (FirstFailure <= 3)
        /\ initError = (phase = "failed")
        /\ phase = "failed" =>
              /\ setupCalls = SubSeq(SetupOrder, 1, FirstFailure)
              /\ teardownCalls = <<>>
        /\ phase = "ready" =>
              /\ setupCalls = SetupOrder
              /\ \A k \in 1..3 : setupRet[k]

C7_Witness ==
    /\ phase = "failed"
    /\ setupRet[1] /\ ~setupRet[2] /\ ~setupRet[3]
    /\ setupCalls = <<"setup", "setup_parser">>

\* C8: after a successful startup, any sequence of postal_normalize and
\* postal_parse calls that each ran to completion, and shutdown, no external
\* result is outstanding and each of the three teardown calls was made
\* exactly once.
C8_CleanShutdown ==
    (phase = "stopped" /\ ~errored) =>
        /\ outstanding = 0
        /\ Len(teardownCalls) = 3
        /\ \A name \in {"teardown", "teardown_parser", "teardown_language_classifier"} :
              Cardinality({k \in 1..Len(teardownCalls) : teardownCalls[k] = name}) = 1

C8_Witness ==
    /\ phase = "stopped"
    /\ ~errored
    /\ last.op = "parse"
    /\ Len(last.ext) >= 2
    /\ outstanding = 0

\* the text with one "label":"escaped-component" entry per pair, in order
RECURSIVE EntriesInOrder(_)
EntriesInOrder(parsed) ==
    IF parsed = <<>> THEN <<>>
    ELSE LET n == Len(parsed)
         IN  EntriesInOrder(SubSeq(parsed, 1, n - 1))
                 \o (IF n > 1 THEN <<Comma>> ELSE <<>>)
                 \o <<DQuote>> \o CContent(parsed[n].label)
                 \o <<DQuote, Colon, DQuote>>
                 \o TableUnits(CContent(parsed[n].component)) \o <<DQuote>>

LastOccurrence(parsed, i) ==
    CHOOSE k \in i..Len(parsed) :
        /\ parsed[k].label = parsed[i].label
        /\ \A m \in (k + 1)..Len(parsed) : parsed[m].label # parsed[i].label

\* C9: for every external response postal_parse emits one entry per (label,
\* component) pair, in order, and the resulting document has every label
\* that occurs as exactly one key, mapped to the component of the label's
\* last occurrence.
C9_LastWriteWins ==
    (last.op = "parse" /\ last.handed /\ last.fault = NoFault) =>
        /\ last.json = <<LBrace>> \o EntriesInOrder(last.ext) \o <<RBrace>>
        /\ ~last.error
        /\ \A i \in 1..Len(last.ext) :
              /\ <<CContent(last.ext[i].label),
                   CContent(last.ext[LastOccurrence(last.ext, i)].component)>>
                     \in last.result
              /\ Cardinality({e \in last.result :
                                 e[1] = CContent(last.ext[i].label)}) = 1

\* C10: the buffer has room for 2*(n+1) bytes; in the loop j <= 2*i <= 2*n;
\* every write, the terminator included, is below the capacity; the early
\* exit j == pstr_len is never taken and no input byte is skipped.
C10_WorstCaseDoubling ==
    epc # "off" =>
        LET n == strlen(str)
        IN  /\ epc = "loop" => est.j <= 2 * est.i /\ 2 * est.i <= 2 * n
            /\ est.hi < 2 * (n + 1)
            /\ ~est.brk
            /\ Returned => /\ est.i = n
                           /\ est.hi = est.j - 1
                           /\ est.pstr[est.j] = NUL
                           /\ Len(CContent(est.pstr)) = est.j - 1

C10_Witness ==
    /\ epc = "returned"
    /\ strlen(str) >= 2
    /\ est.j = 2 * strlen(str) + 1
    /\ est.hi = 2 * strlen(str)

====
